---- MODULE Spec2Model ----
(***************************************************************************)
(* Arclight backend: the job orchestration of controllers/aiController.js  *)
(* (relight, face-restore, enhance, style-transfer, remove-background) and *)
(* the bounded version history of models/Project.js with the handlers of   *)
(* controllers/projectController.js.                                       *)
(***************************************************************************)
EXTENDS Integers, Sequences, FiniteSets, TLC

\* a number that is not given
NoNumber == 0 - 1

\* utils/globalErrorHandler.js: the response carries the error's statusCode; an
\* error that has none (anything but an AppError) is answered as a server error
globalErrorHandler(statusCode) == IF statusCode = NoNumber THEN 500 ELSE statusCode

(***************************************************************************)
(* Part I.  Projects: models/Project.js and controllers/projectController  *)
(***************************************************************************)

VARIABLES
    projects,       \* the Project collection: project id -> document, or NoProject
    appended,       \* history: per project id, every record addVersion has saved, in order
    nextOid,        \* the next ObjectId mongoose hands to a sub-document
    userSettings,   \* user -> settings.maxVersions (0: not set)
    presp,          \* the last response of a project handler
    pending         \* per add-version request in flight: the document it has loaded

projVars == <<projects, appended, nextOid, userSettings, presp, pending>>

VARIABLES
    job,          \* per request slot: the handler's position and its local variables
    dbImg,        \* the Image collection: publicId -> [user, localPath, format]
    localFiles,   \* the files in the server's image directory
    container,    \* per docker capability: [state, id, files] of its named container
    remote,       \* the publicIds stored in Cloudinary
    ensureLog,    \* history: per capability, the completed ensureContainerRunning calls
    faults,       \* environment failures so far: failed calls and operator actions
    requests      \* requests received so far (the clock behind Date.now())

jobVars == <<job, dbImg, localFiles, container, remote, ensureLog, faults, requests>>
vars == <<projVars, jobVars>>

\* ---- bounds of the project model
MaxAppends == 4          \* add-version requests that reach project.save()

Users == {"u1", "u2"}
\* the uploaded images of the Image collection and the user each belongs to
UploadedImages == {"img1", "img2"}
ImageUser(i) == IF i = "img1" THEN "u1" ELSE "u2"

NoValue == "undefined"   \* a field the request does not carry
NoProject == [exists |-> FALSE, deleted |-> FALSE]        \* never created
DeletedProject == [exists |-> FALSE, deleted |-> TRUE]    \* removed by deleteProject
\* the project of the model, and the ids requests name: it and one that never exists
ProjectIds == {"p1"}
RequestProjectIds == {"p1", "p0"}
NoId == "none"

\* imageVersionSchema.operation: enum [...], default 'original'
OperationEnum == {"original", "segment", "remove-background", "enhance", "upscale",
                  "style-transfer", "crop", "custom"}
DefaultMaxVersions == 10
\* the largest maxVersions the settings accept
MaxVersionsLimit == 15
\* settings.maxVersions values a user can have: not set, or within 1..15
MaxVersionsSettings == {0, 1, 2}

\* the request bodies of add-version the model sends
ReqOperations == {NoValue, "original", "sharpen"}
ReqPublicIds == {NoValue, "ver1"}
ReqTitles == {NoValue, "t1"}

\* projectSchema.methods.getLatestVersion
getLatestVersion_first(p) ==
    IF Len(p.versions) > 0 THEN p.versions[1] ELSE p.originalImage

getLatestVersion(p) ==
    IF Len(p.versions) > 0 THEN p.versions[Len(p.versions)] ELSE p.originalImage

\* Array.prototype.slice(-n) for n >= 1: the last n elements (all, when shorter)
SliceLast(s, n) ==
    IF Len(s) <= n THEN s ELSE SubSeq(s, Len(s) - n + 1, Len(s))

\* the in-memory part of projectSchema.methods.addVersion: push, then trim
addVersion_keepOldest(p, versionData) ==
    LET pushed == Append(p.versions, versionData)
    IN  [p EXCEPT !.versions =
            IF Len(pushed) > p.maxVersions THEN SubSeq(pushed, 1, p.maxVersions)
            ELSE pushed]

\* the trim moves the window over the original: the evicted record becomes it
addVersion_rebase(p, versionData) ==
    LET pushed == Append(p.versions, versionData)
    IN  IF Len(pushed) > p.maxVersions
        THEN [p EXCEPT !.versions = SliceLast(pushed, p.maxVersions),
                       !.originalImage = pushed[1]]
        ELSE [p EXCEPT !.versions = pushed]

addVersion(p, versionData) ==
    LET pushed == Append(p.versions, versionData)
    IN  [p EXCEPT !.versions =
            IF Len(pushed) > p.maxVersions THEN SliceLast(pushed, p.maxVersions)
            ELSE pushed]

\* mongoose validation of a version sub-document on save: the enum of operation
ValidVersion(v) == v.operation \in OperationEnum

\* what a handler answers: the status, who asked, and (ghost) who owned the project
\* when the request arrived; latest is the latestVersion / latestImage of the body
Response(op, user, pid, status, latest) ==
    [op |-> op, user |-> user, projectId |-> pid, status |-> status,
     owner |-> IF pid \in ProjectIds /\ projects[pid].exists
               THEN projects[pid].user ELSE NoValue,
     latest |-> latest]

Found(pid) == pid \in ProjectIds /\ projects[pid].exists

\* how far the model follows the history of a project: MaxAppends saved records,
\* and one record past the cap for a project at the largest cap
AppendBound(p) ==
    IF p.maxVersions = MaxVersionsLimit THEN MaxVersionsLimit + 1 ELSE MaxAppends

FreeProjectIds == {i \in ProjectIds : projects[i] = NoProject}

\* POST /api/projects/create
createProject(u, publicId, title) ==
    /\ UNCHANGED <<jobVars, pending>>
    /\ /\ FreeProjectIds # {}
       /\ LET pid == CHOOSE i \in FreeProjectIds : TRUE
          IN
          IF publicId = NoValue
          THEN /\ presp' = Response("create", u, NoId, 400, NoValue)
               /\ UNCHANGED <<projects, appended, nextOid, userSettings>>
          ELSE IF ~(publicId \in UploadedImages /\ ImageUser(publicId) = u)
          THEN /\ presp' = Response("create", u, NoId, 404, NoValue)
               /\ UNCHANGED <<projects, appended, nextOid, userSettings>>
          ELSE /\ projects' = [projects EXCEPT ![pid] =
                   [exists |-> TRUE,
                    user |-> u,
                    title |-> IF title = NoValue THEN "Untitled Project" ELSE title,
                    maxVersions |-> IF userSettings[u] = 0 THEN DefaultMaxVersions
                                    ELSE userSettings[u],
                    originalImage |-> [oid |-> nextOid, publicId |-> publicId,
                                       operation |-> "original"],
                    versions |-> <<>>]]
               /\ nextOid' = nextOid + 1
               /\ presp' = [Response("create", u, pid, 201, NoValue) EXCEPT !.owner = u]
               /\ UNCHANGED <<appended, userSettings>>

\* GET /api/projects
getUserProjects(u) ==
    /\ UNCHANGED <<jobVars, pending>>
    /\ /\ presp' = Response("list", u, NoId, 200,
                       {getLatestVersion(projects[i]) :
                           i \in {k \in ProjectIds : Found(k) /\ projects[k].user = u}})
       /\ UNCHANGED <<projects, appended, nextOid, userSettings>>

\* GET /api/projects/:projectId
getProjectDetails(u, pid) ==
    /\ UNCHANGED <<jobVars, pending>>
    /\ /\ IF ~Found(pid)
          THEN presp' = Response("details", u, pid, 404, NoValue)
          ELSE presp' = Response("details", u, pid, 200, getLatestVersion(projects[pid]))
       /\ UNCHANGED <<projects, appended, nextOid, userSettings>>

\* POST /api/projects/:projectId/add-version
addVersionToProject(u, pid, publicId, operation) ==
    /\ UNCHANGED <<jobVars, pending>>
    /\ IF publicId = NoValue
       THEN /\ presp' = Response("add-version", u, pid, 400, NoValue)
            /\ UNCHANGED <<projects, appended, nextOid, userSettings>>
       ELSE IF ~Found(pid)
       THEN /\ presp' = Response("add-version", u, pid, 404, NoValue)
            /\ UNCHANGED <<projects, appended, nextOid, userSettings>>
       ELSE LET versionData == [oid |-> nextOid, publicId |-> publicId,
                                operation |-> IF operation = NoValue THEN "custom"
                                              ELSE operation]
                doc == addVersion(projects[pid], versionData)
            IN  IF ~ValidVersion(versionData)
                THEN \* this.save() rejects: nothing is stored, the error handler answers
                     /\ presp' = Response("add-version", u, pid, globalErrorHandler(NoNumber),
                                              NoValue)
                     /\ UNCHANGED <<projects, appended, nextOid, userSettings>>
                ELSE /\ Len(appended[pid]) < AppendBound(projects[pid])
                     /\ projects' = [projects EXCEPT ![pid] = doc]
                     /\ appended' = [appended EXCEPT ![pid] = Append(@, versionData)]
                     /\ nextOid' = nextOid + 1
                     /\ presp' = Response("add-version", u, pid, 200, getLatestVersion(doc))
                     /\ UNCHANGED userSettings

\* PATCH /api/projects/:projectId/title
updateProjectTitle(u, pid, title) ==
    /\ UNCHANGED <<jobVars, pending>>
    /\ IF title = NoValue
       THEN /\ presp' = Response("title", u, pid, 400, NoValue)
            /\ UNCHANGED <<projects, appended, nextOid, userSettings>>
       ELSE IF ~Found(pid)
       THEN /\ presp' = Response("title", u, pid, 404, NoValue)
            /\ UNCHANGED <<projects, appended, nextOid, userSettings>>
       ELSE /\ projects' = [projects EXCEPT ![pid].title = title]
            /\ presp' = Response("title", u, pid, 200, NoValue)
            /\ UNCHANGED <<appended, nextOid, userSettings>>

\* the TODO of deleteProject carried out: the images of the project are destroyed
\* in Cloudinary before the document is deleted
deleteProject_purge(u, pid) ==
    /\ Found(pid)
    /\ remote' = remote \ ({projects[pid].originalImage.publicId} \cup
                            {projects[pid].versions[i].publicId :
                                i \in DOMAIN projects[pid].versions})
    /\ projects' = [projects EXCEPT ![pid] = DeletedProject]
    /\ presp' = Response("delete", u, pid, 200, NoValue)
    /\ UNCHANGED <<appended, nextOid, userSettings, pending, job, dbImg, localFiles,
                   container, ensureLog, faults, requests>>

\* DELETE /api/projects/:projectId
deleteProject(u, pid) ==
    /\ UNCHANGED <<jobVars, pending>>
    /\ IF ~Found(pid)
       THEN /\ presp' = Response("delete", u, pid, 404, NoValue)
            /\ UNCHANGED <<projects, appended, nextOid, userSettings>>
       ELSE /\ projects' = [projects EXCEPT ![pid] = DeletedProject]
            /\ presp' = Response("delete", u, pid, 200, NoValue)
            /\ UNCHANGED <<appended, nextOid, userSettings>>

\* the add-version requests that can be in flight at once, and a free one
AddRequests == {"r1", "r2"}
NoDocument == [loaded |-> FALSE]

\* no project yet
NoProjects ==
    /\ projects = [i \in ProjectIds |-> NoProject]
    /\ pending = [r \in AddRequests |-> NoDocument]
    /\ appended = [i \in ProjectIds |-> <<>>]
    /\ nextOid = 1
    /\ presp = [op |-> "none", user |-> NoValue, projectId |-> NoId, status |-> 0,
                owner |-> NoValue, latest |-> NoValue]

ProjInit == NoProjects /\ userSettings \in [Users -> MaxVersionsSettings]

ProjNext ==
    \/ \E u \in Users, i \in UploadedImages \cup {NoValue}, t \in ReqTitles :
          createProject(u, i, t)
    \/ \E u \in Users : getUserProjects(u)
    \/ \E u \in Users, pid \in RequestProjectIds : getProjectDetails(u, pid)
    \/ \E u \in Users, pid \in RequestProjectIds, i \in ReqPublicIds, o \in ReqOperations :
          addVersionToProject(u, pid, i, o)
    \/ \E u \in Users, pid \in RequestProjectIds, t \in ReqTitles :
          updateProjectTitle(u, pid, t)
    \/ \E u \in Users, pid \in RequestProjectIds : deleteProject(u, pid)

\* SpecProj is defined after the job model, which shares its initial state

\* ---- claims on the projects

Min(a, b) == IF a <= b THEN a ELSE b
\* the k most recent elements of s in their order, stated by index
MostRecent(s, k) ==
    LET n == Min(k, Len(s)) IN [i \in 1..n |-> s[Len(s) - n + i]]

\* C1: after every addVersion call, versions.length <= maxVersions and versions is
\* exactly the min(k, maxVersions) most recently appended records in append order
C1_SlidingWindow ==
    \A pid \in ProjectIds :
        projects[pid].exists =>
            /\ projects[pid].maxVersions \in 1..15
            /\ Len(projects[pid].versions) <= projects[pid].maxVersions
            /\ projects[pid].versions =
                   MostRecent(appended[pid], projects[pid].maxVersions)

\* maxVersions = 2 and V1, V2, V3 appended: versions = [V2, V3]
C1_Witness ==
    /\ projects["p1"].exists
    /\ projects["p1"].maxVersions = 2
    /\ Len(appended["p1"]) = 3
    /\ projects["p1"].versions = <<appended["p1"][2], appended["p1"][3]>>
    /\ presp.op = "add-version" /\ presp.status = 200

\* C2: getLatestVersion never fails; it returns originalImage iff versions is empty
\* and otherwise the most recently appended record. Checked on the stored project
\* and on the latestVersion the detail and add-version responses carry.
C2_LatestWellDefined ==
    \A pid \in ProjectIds :
        projects[pid].exists =>
            LET p == projects[pid]
                r == getLatestVersion(p)
                h == appended[pid]
            IN  /\ DOMAIN r = {"oid", "publicId", "operation"}
                /\ (r = p.originalImage) <=> (p.versions = <<>>)
                /\ (p.versions = <<>>) <=> (h = <<>>)
                /\ h # <<>> => r = h[Len(h)]
                /\ (presp.status = 200 /\ presp.op \in {"details", "add-version"}
                        /\ presp.projectId = pid) => presp.latest = r

C2_Witness ==
    /\ projects["p1"].exists
    /\ Len(appended["p1"]) = 3
    /\ Len(projects["p1"].versions) = 2
    /\ presp.op = "details" /\ presp.status = 200
    /\ presp.latest = appended["p1"][3]

\* C10: a delete, add-version, title or detail request on a project made by a user
\* who does not own it is rejected (and so leaves the project unchanged)
C10_OwnerOnly ==
    (/\ presp.op \in {"delete", "add-version", "title", "details"}
     /\ presp.owner # NoValue
     /\ presp.user # presp.owner)
    => presp.status \in {403, 404}

(***************************************************************************)
(* Part II.  Jobs: controllers/aiController.js                             *)
(***************************************************************************)


\* ---- bounds of the job model
MaxFaults == 1           \* calls failing for an outside reason, and operator actions
MaxRequests == 2         \* requests the server receives

Jobs == {"j1", "j2"}
JobUser(j) == IF j = "j1" THEN "u1" ELSE "u2"

DockerCaps == {"relight", "face-restore", "enhance", "style-transfer"}
Caps == DockerCaps \cup {"remove-background"}

\* a file name is [stem, ext]; NullPath is the null of Image.localPath
NullPath == [stem |-> "", ext |-> ""]
UploadPath(i) == [stem |-> i, ext |-> "jpg"]
NoImage == [found |-> FALSE, localPath |-> NullPath, format |-> ""]

\* request parameters in hundredths
DefaultBrightness == 50
DefaultFidelity == 70
\* the uniqueId values Date.now() + '_' + Math.random() can take in the model
UniqueIds == {"1", "2"}

StageOrder == <<"ensure", "push", "invoke", "pull", "upload", "persist", "respond">>

IdleJob ==
    [pc |-> "idle", cap |-> "none", publicId |-> NoValue, styleId |-> NoValue,
     num |-> NoNumber, mode |-> NoValue, uid |-> "", ts |-> 0,
     image |-> NoImage, styleImage |-> NoImage,
     resp |-> 0, failedAt |-> "", finished |-> FALSE,
     stages |-> <<>>, calls |-> {}, cleaned |-> {}, began |-> 0,
     cleanFailed |-> {}, empty |-> FALSE, goneAtStart |-> FALSE,
     startFailed |-> FALSE, produced |-> FALSE, timed |-> FALSE]

\* the error is answered, and the handler goes on to the next statement
Throw_continue(jr, stage, status) ==
    [jr EXCEPT !.resp = globalErrorHandler(status), !.failedAt = stage]

\* the error is answered, and a failed pull still runs the cleanup of the input
Throw_cleanup(jr, stage, status) ==
    [jr EXCEPT !.pc = IF stage = "pull" THEN "clIn" ELSE "failed",
               !.resp = globalErrorHandler(status), !.failedAt = stage]

\* the 'finish' listener is registered before the pipeline: the error response of a
\* failed stage starts the cleanup as well
Throw_finish(jr, stage, status) ==
    [jr EXCEPT !.pc = IF stage \in {"ensure", "push", "invoke", "pull", "verify",
                                    "upload", "persist"}
                      THEN "clOut" ELSE "failed",
               !.resp = globalErrorHandler(status), !.failedAt = stage]

\* return next(new AppError(..., status)), or a rejected await (status NoNumber):
\* catchAsync hands the error to the global error handler and the handler ends
Throw(jr, stage, status) ==
    [jr EXCEPT !.pc = "failed", !.resp = globalErrorHandler(status), !.failedAt = stage]

\* the timing line is written with log.info, which is silent outside development
Timed_dev(jr) == jr

\* const processingTime = ...; log.timing(`... completed in ${processingTime} ...`)
Timed(jr) == [jr EXCEPT !.timed = TRUE]

Called(jr, what) == [jr EXCEPT !.calls = @ \cup {what}]
Staged(jr, stage) == [jr EXCEPT !.stages = Append(@, stage)]

\* ---- the paths a job computes (after the fs.access of its inputs)
InputPath(jr) == jr.image.localPath
StylePath(jr) == jr.styleImage.localPath

OutputFilename(jr) ==
    CASE jr.cap = "relight" ->
            [stem |-> InputPath(jr).stem \o "_relight_" \o jr.uid, ext |-> jr.image.format]
      [] jr.cap = "face-restore" ->
            [stem |-> InputPath(jr).stem \o "_restored_" \o jr.uid, ext |-> jr.image.format]
      [] jr.cap = "enhance" ->
            [stem |-> InputPath(jr).stem \o "_" \o jr.mode \o "_" \o jr.uid,
             ext |-> jr.image.format]
      [] jr.cap = "style-transfer" ->
            [stem |-> "styled_" \o jr.uid, ext |-> "jpg"]
      [] jr.cap = "remove-background" ->
            [stem |-> InputPath(jr).stem \o "_nobg_" \o jr.uid, ext |-> "png"]

OutputPath(jr) == OutputFilename(jr)

In(dir, f) == [dir |-> dir, stem |-> f.stem, ext |-> f.ext]

FaceOutputDir(jr) == "/cf/output/input_" \o ToString(jr.num) \o "/final_results"

\* every job stages its input under one fixed name
StagedInput_fixed(jr) == [dir |-> "/app", stem |-> "input", ext |-> InputPath(jr).ext]

\* where docker cp puts the job's input(s) inside the container
StagedInput(jr) ==
    CASE jr.cap = "relight" -> In("/app", InputPath(jr))
      [] jr.cap = "face-restore" -> In("/cf/input", InputPath(jr))
      [] jr.cap = "enhance" -> In("/app/demo", InputPath(jr))
      [] jr.cap = "style-transfer" -> In("/app/figures/content", InputPath(jr))

StagedStyle(jr) == In("/app/figures/style", StylePath(jr))

\* the container path docker cp reads the result from
ContainerOutput(jr) ==
    CASE jr.cap = "relight" -> In("/app", OutputFilename(jr))
      [] jr.cap = "face-restore" ->
            [dir |-> FaceOutputDir(jr), stem |-> InputPath(jr).stem, ext |-> "png"]
      [] jr.cap = "enhance" -> In("/app/demo", OutputFilename(jr))
      [] jr.cap = "style-transfer" ->
            [dir |-> "/app/results", stem |-> "output", ext |-> "jpg"]

\* what the model run inside the container writes when it produces its output
ExecWrites(jr, files) ==
    CASE jr.cap = "face-restore" ->
            \* --test_path /cf/input: one result per file staged in /cf/input
            {[dir |-> FaceOutputDir(jr), stem |-> f.stem, ext |-> "png"] :
                f \in {g \in files : g.dir = "/cf/input"}}
      [] OTHER -> {ContainerOutput(jr)}

ExecInputsPresent(jr, files) ==
    /\ StagedInput(jr) \in files
    /\ jr.cap = "style-transfer" => StagedStyle(jr) \in files

\* the files docker exec rm -f / rm -rf removes
RmTargets(jr, files) ==
    CASE jr.cap = "face-restore" ->
            {StagedInput(jr)} \cup {f \in files : f.dir = FaceOutputDir(jr)}
      [] jr.cap = "style-transfer" ->
            {StagedInput(jr), StagedStyle(jr), ContainerOutput(jr)}
      [] OTHER -> {StagedInput(jr), ContainerOutput(jr)}

\* the publicId Cloudinary stores the result under
OutPublicId(j) ==
    LET jr == job[j]
        now == ToString(jr.ts)
    IN
    CASE jr.cap = "relight" -> "relight_" \o jr.publicId \o "_" \o now
      [] jr.cap = "face-restore" -> "face_restore_" \o jr.publicId \o "_" \o now
      [] jr.cap = "enhance" -> jr.mode \o "_" \o jr.publicId \o "_" \o now
      [] jr.cap = "style-transfer" -> "style_transfer_" \o jr.publicId \o "_" \o now
      [] jr.cap = "remove-background" -> "upload_" \o now

\* Image.findOne({ publicId }) and, for remove-background, ({ publicId, user })
FindImage(publicId) ==
    IF publicId \in DOMAIN dbImg
    THEN [found |-> TRUE, localPath |-> dbImg[publicId].localPath,
          format |-> dbImg[publicId].format]
    ELSE NoImage

FindImageOf(publicId, user) ==
    IF publicId \in DOMAIN dbImg /\ dbImg[publicId].user = user
    THEN FindImage(publicId)
    ELSE NoImage

\* the images whose uploaded file a cleanup has deleted
UploadGone(publicId) ==
    publicId \in UploadedImages /\ UploadPath(publicId) \notin localFiles

NewJob(j, cap, publicId, styleId, num, mode) ==
    [IdleJob EXCEPT !.pc = "findOne", !.cap = cap, !.publicId = publicId,
                    !.styleId = styleId, !.num = num, !.mode = mode,
                    !.ts = requests + 1,
                    !.goneAtStart = UploadGone(publicId) \/ UploadGone(styleId)]

JobUnchanged ==
    UNCHANGED <<projVars, dbImg, localFiles, container, remote, ensureLog, faults, requests>>

\* a slot takes a request when it is not serving one
Accepts(j) ==
    /\ job[j].pc \in {"idle", "done", "failed"}
    /\ requests < MaxRequests
    /\ requests' = requests + 1

StartUnchanged == UNCHANGED <<projVars, dbImg, localFiles, container, remote, ensureLog, faults>>

\* ---- the synchronous head of each handler: the validation of the body

\* the upper limit is not checked
BrightnessRejected_lowOnly(b) == b < 10

\* brightness < 0.1 || brightness > 3.0, in hundredths

BrightnessRejected(b) == b < 10 \/ b > 300

relightStart(j, publicId, brightness) ==
    /\ Accepts(j)
    /\ LET jr == NewJob(j, "relight", publicId, NoValue, brightness, NoValue)
       IN  job' = [job EXCEPT ![j] =
              IF publicId = NoValue THEN Throw(jr, "validate", 400)
              ELSE IF BrightnessRejected(brightness) THEN Throw(jr, "validate", 400)
              ELSE jr]
    /\ StartUnchanged

\* fidelity < 0 || fidelity > 1, in hundredths
faceRestoreStart(j, publicId, fidelity) ==
    /\ Accepts(j)
    /\ LET jr == NewJob(j, "face-restore", publicId, NoValue, fidelity, NoValue)
       IN  job' = [job EXCEPT ![j] =
              IF publicId = NoValue THEN Throw(jr, "validate", 400)
              ELSE IF fidelity < 0 \/ fidelity > 100 THEN Throw(jr, "validate", 400)
              ELSE jr]
    /\ StartUnchanged

enhanceStart(j, publicId, mode) ==
    /\ Accepts(j)
    /\ LET jr == NewJob(j, "enhance", publicId, NoValue, NoNumber, mode)
       IN  job' = [job EXCEPT ![j] =
              IF publicId = NoValue THEN Throw(jr, "validate", 400)
              ELSE IF mode = NoValue THEN Throw(jr, "validate", 400)
              ELSE IF mode \notin {"denoise", "deblur"} THEN Throw(jr, "validate", 400)
              ELSE jr]
    /\ StartUnchanged

styleTransferStart(j, contentPublicId, stylePublicId) ==
    /\ Accepts(j)
    /\ LET jr == NewJob(j, "style-transfer", contentPublicId, stylePublicId,
                        NoNumber, NoValue)
       IN  job' = [job EXCEPT ![j] =
              IF contentPublicId = NoValue THEN Throw(jr, "validate", 400)
              ELSE IF stylePublicId = NoValue THEN Throw(jr, "validate", 400)
              ELSE jr]
    /\ StartUnchanged

removeBackgroundStart(j, publicId, mode) ==
    /\ Accepts(j)
    /\ LET m == IF mode = NoValue THEN "object" ELSE mode
           jr == NewJob(j, "remove-background", publicId, NoValue, NoNumber, m)
       IN  job' = [job EXCEPT ![j] =
              IF publicId = NoValue THEN Throw(jr, "validate", 400)
              ELSE IF m \notin {"human", "object"} THEN Throw(jr, "validate", 400)
              ELSE jr]
    /\ StartUnchanged

\* ---- the awaited steps; each action is one awaited call and the code up to the
\* next await. ok = FALSE is the call failing for a reason outside the program
\* (database, docker daemon, disk or Cloudinary unavailable); the model injects at
\* most MaxFaults such failures.
Oks == IF faults < MaxFaults THEN BOOLEAN ELSE {TRUE}
OutcomesOf(S) == IF faults < MaxFaults THEN S ELSE {"ok"}
Fault(ok) == faults' = IF ok THEN faults ELSE faults + 1

IsStyle(jr) == jr.cap = "style-transfer"
IsDocker(jr) == jr.cap \in DockerCaps

\* the checks that follow the lookups
AfterLookup(jr) ==
    IF ~jr.image.found THEN Throw(jr, "findOne", 404)
    ELSE IF IsStyle(jr) /\ ~jr.styleImage.found THEN Throw(jr, "findOne", 404)
    ELSE IF jr.image.localPath = NullPath THEN Throw(jr, "localPath", 404)
    ELSE IF IsStyle(jr) /\ jr.styleImage.localPath = NullPath
         THEN Throw(jr, "localPath", 404)
    ELSE [jr EXCEPT !.pc = "access"]

\* const image = await Image.findOne(...)
FindOne(j) ==
    /\ job[j].pc = "findOne"
    /\ \E ok \in Oks :
         /\ Fault(ok)
         /\ LET jr == Called(job[j], "db")
                img == IF jr.cap = "remove-background"
                       THEN FindImageOf(jr.publicId, JobUser(j))
                       ELSE FindImage(jr.publicId)
                got == [jr EXCEPT !.image = img]
            IN  job' = [job EXCEPT ![j] =
                   IF ~ok THEN Throw(jr, "findOne", NoNumber)
                   ELSE IF IsStyle(jr) THEN [got EXCEPT !.pc = "findOne2"]
                   ELSE AfterLookup(got)]
    /\ UNCHANGED <<projVars, dbImg, localFiles, container, remote, ensureLog, requests>>

\* const styleImage = await Image.findOne({ publicId: stylePublicId })
FindOne2(j) ==
    /\ job[j].pc = "findOne2"
    /\ \E ok \in Oks :
         /\ Fault(ok)
         /\ LET jr == job[j]
                got == [jr EXCEPT !.styleImage = FindImage(jr.styleId)]
            IN  job' = [job EXCEPT ![j] =
                   IF ~ok THEN Throw(jr, "findOne", NoNumber) ELSE AfterLookup(got)]
    /\ UNCHANGED <<projVars, dbImg, localFiles, container, remote, ensureLog, requests>>

\* the code between the last fs.access and the first docker call: the paths with
\* their uniqueId; for a docker job, ensureContainerRunning is entered
Prepared(jr, uid) ==
    [jr EXCEPT !.uid = uid,
               !.pc = IF IsDocker(jr) THEN "ensureStart" ELSE "exec",
               !.began = IF IsDocker(jr) THEN Len(ensureLog[jr.cap]) ELSE 0]

\* await fs.access(image.localPath): rejects with ENOENT when the file is gone
Access(j) ==
    /\ job[j].pc = "access"
    /\ \E uid \in UniqueIds :
         LET jr == Called(job[j], "fs")
         IN  job' = [job EXCEPT ![j] =
                IF InputPath(jr) \notin localFiles THEN Throw(jr, "access", NoNumber)
                ELSE IF IsStyle(jr) THEN [jr EXCEPT !.pc = "access2"]
                ELSE Prepared(jr, uid)]
    /\ JobUnchanged

\* await fs.access(styleImage.localPath)
Access2(j) ==
    /\ job[j].pc = "access2"
    /\ \E uid \in UniqueIds :
         LET jr == job[j]
         IN  job' = [job EXCEPT ![j] =
                IF StylePath(jr) \notin localFiles THEN Throw(jr, "access", NoNumber)
                ELSE Prepared(jr, uid)]
    /\ JobUnchanged

EnsureEntry(j, ok, created, infra) ==
    [job |-> job[j].ts, ok |-> ok, identity |-> IF ok THEN container'[job[j].cap].id ELSE 0,
     created |-> created, infra |-> infra, began |-> job[j].began]

\* the try is skipped: every call goes to docker run
EnsureStart_skip(j) ==
    /\ job[j].pc = "ensureStart"
    /\ job' = [job EXCEPT ![j].pc = "ensureRun"]
    /\ JobUnchanged

\* ensureContainerRunning, the try: docker start <name>
EnsureStart(j) ==
    /\ job[j].pc = "ensureStart"
    /\ \E ok \in Oks :
         /\ Fault(ok)
         /\ LET jr == Called(job[j], "docker start")
                cap == jr.cap
            IN  IF ok /\ container[cap].state # "absent"
                THEN /\ container' = [container EXCEPT ![cap].state = "running"]
                     /\ ensureLog' = [ensureLog EXCEPT ![cap] =
                            Append(@, EnsureEntry(j, TRUE, FALSE, FALSE))]
                     /\ job' = [job EXCEPT ![j] = [Staged(jr, "ensure") EXCEPT !.pc = "cpIn"]]
                ELSE \* catch (err): whatever the error, fall back to creation
                     /\ job' = [job EXCEPT ![j] =
                            [jr EXCEPT !.pc = "ensureRun", !.startFailed = ~ok]]
                     /\ UNCHANGED <<container, ensureLog>>
    /\ UNCHANGED <<projVars, dbImg, localFiles, remote, requests>>

\* ensureContainerRunning, the catch: docker run -d --name <name> <image>
EnsureRun(j) ==
    /\ job[j].pc = "ensureRun"
    /\ \E ok \in Oks :
         /\ Fault(ok)
         /\ LET jr == Called(job[j], "docker run")
                cap == jr.cap
            IN  IF ok /\ container[cap].state = "absent"
                THEN /\ container' = [container EXCEPT ![cap] =
                            [state |-> "running", id |-> @.id + 1, files |-> {}]]
                     /\ ensureLog' = [ensureLog EXCEPT ![cap] =
                            Append(@, EnsureEntry(j, TRUE, TRUE, FALSE))]
                     /\ job' = [job EXCEPT ![j] = [Staged(jr, "ensure") EXCEPT !.pc = "cpIn"]]
                ELSE \* the name is taken, or docker is unreachable: the request fails
                     /\ UNCHANGED container
                     /\ ensureLog' = [ensureLog EXCEPT ![cap] =
                            Append(@, EnsureEntry(j, FALSE, FALSE, ~ok \/ jr.startFailed))]
                     /\ job' = [job EXCEPT ![j] = Throw(jr, "ensure", NoNumber)]
    /\ UNCHANGED <<projVars, dbImg, localFiles, remote, requests>>

\* docker cp "<inputPath>" <name>:<dir>/<inputFilename>
CpIn(j) ==
    /\ job[j].pc = "cpIn"
    /\ \E ok \in Oks :
         /\ Fault(ok)
         /\ LET jr == Called(job[j], "docker cp in")
                cap == jr.cap
            IN  IF ok /\ InputPath(jr) \in localFiles /\ container[cap].state # "absent"
                THEN /\ container' = [container EXCEPT ![cap].files = @ \cup {StagedInput(jr)}]
                     /\ job' = [job EXCEPT ![j] =
                            IF IsStyle(jr) THEN [jr EXCEPT !.pc = "cpIn2"]
                            ELSE [Staged(jr, "push") EXCEPT !.pc = "exec"]]
                ELSE /\ UNCHANGED container
                     /\ job' = [job EXCEPT ![j] = Throw(jr, "push", NoNumber)]
    /\ UNCHANGED <<projVars, dbImg, localFiles, remote, ensureLog, requests>>

\* docker cp "<stylePath>" <name>:/app/figures/style/<styleFilename>
CpIn2(j) ==
    /\ job[j].pc = "cpIn2"
    /\ \E ok \in Oks :
         /\ Fault(ok)
         /\ LET jr == job[j]
                cap == jr.cap
            IN  IF ok /\ StylePath(jr) \in localFiles /\ container[cap].state # "absent"
                THEN /\ container' = [container EXCEPT ![cap].files = @ \cup {StagedStyle(jr)}]
                     /\ job' = [job EXCEPT ![j] = [Staged(jr, "push") EXCEPT !.pc = "exec"]]
                ELSE /\ UNCHANGED container
                     /\ job' = [job EXCEPT ![j] = Throw(jr, "push", NoNumber)]
    /\ UNCHANGED <<projVars, dbImg, localFiles, remote, ensureLog, requests>>

\* the outcomes of the model run: it fails (non-zero exit, or more than maxBuffer of
\* output), it writes its result, or it exits 0 having written nothing. Only the
\* first is a failure of the call; what a run that exits 0 wrote is the worker's
\* own doing
ExecOutcomes == {"fail", "ok", "silent"}

\* docker exec <name> python ... (the inference inside the container)
Exec(j) ==
    /\ job[j].pc = "exec"
    /\ IsDocker(job[j])
    /\ \E out \in OutcomesOf(ExecOutcomes) \cup {"silent"} :
         /\ Fault(out # "fail")
         /\ LET jr == Called(job[j], "docker exec")
                cap == jr.cap
                files == container[cap].files
            IN  IF out = "fail" \/ container[cap].state # "running"
                THEN /\ UNCHANGED container
                     /\ job' = [job EXCEPT ![j] = Throw(jr, "invoke", NoNumber)]
                ELSE /\ container' = [container EXCEPT ![cap].files =
                            IF out = "ok" /\ ExecInputsPresent(jr, files)
                            THEN files \cup ExecWrites(jr, files) ELSE files]
                     /\ job' = [job EXCEPT ![j] =
                            [Timed(Staged(jr, "invoke")) EXCEPT
                                !.pc = "cpOut",
                                !.produced = (out = "ok" /\ ExecInputsPresent(jr, files))]]
    /\ UNCHANGED <<projVars, dbImg, localFiles, remote, ensureLog, requests>>

\* docker cp <name>:<containerOutputPath> "<outputPath>"
CpOut(j) ==
    /\ job[j].pc = "cpOut"
    /\ \E ok \in Oks :
         /\ Fault(ok)
         /\ LET jr == Called(job[j], "docker cp out")
                cap == jr.cap
            IN  IF ok /\ ContainerOutput(jr) \in container[cap].files
                THEN /\ localFiles' = localFiles \cup {OutputPath(jr)}
                     /\ job' = [job EXCEPT ![j] = [Staged(jr, "pull") EXCEPT !.pc = "rm"]]
                ELSE /\ UNCHANGED localFiles
                     /\ job' = [job EXCEPT ![j] = Throw(jr, "pull", NoNumber)]
    /\ UNCHANGED <<projVars, dbImg, container, remote, ensureLog, requests>>

\* the files in the container are left for a later cleanup
Rm_skipped(j) ==
    /\ job[j].pc = "rm"
    /\ job' = [job EXCEPT ![j].pc = "accessOut"]
    /\ JobUnchanged

\* docker exec <name> rm -f ... .catch(log.warn): a failure is only logged
Rm(j) ==
    /\ job[j].pc = "rm"
    /\ \E ok \in Oks :
         /\ Fault(ok)
         /\ LET jr == Called(job[j], "docker rm files")
                cap == jr.cap
            IN  /\ container' = [container EXCEPT ![cap].files =
                       IF ok /\ container[cap].state = "running"
                       THEN @ \ RmTargets(jr, @) ELSE @]
                /\ job' = [job EXCEPT ![j] = [jr EXCEPT !.pc = "accessOut"]]
    /\ UNCHANGED <<projVars, dbImg, localFiles, remote, ensureLog, requests>>

\* remove-background: "<rembgPath>" i -m <model> "<inputPath>" "<outputPath>" on the
\* host; "empty" is a result file of zero bytes
RbExec(j) ==
    /\ job[j].pc = "exec"
    /\ job[j].cap = "remove-background"
    /\ \E out \in OutcomesOf(ExecOutcomes) \cup {"silent", "empty"} :
         /\ Fault(out # "fail")
         /\ LET jr == Called(job[j], "rembg") IN
            IF out = "fail" \/ InputPath(jr) \notin localFiles
            THEN /\ UNCHANGED localFiles
                 /\ job' = [job EXCEPT ![j] = Throw(jr, "invoke", NoNumber)]
            ELSE /\ localFiles' = IF out = "silent" THEN localFiles
                                  ELSE localFiles \cup {OutputPath(jr)}
                 /\ job' = [job EXCEPT ![j] =
                       [Timed(Staged(jr, "invoke")) EXCEPT
                           !.pc = "accessOut", !.empty = (out = "empty")]]
    /\ UNCHANGED <<projVars, dbImg, container, remote, ensureLog, requests>>

\* await fs.access(outputPath); remove-background also rejects an empty file
AccessOut(j) ==
    /\ job[j].pc = "accessOut"
    /\ LET jr == job[j] IN
       job' = [job EXCEPT ![j] =
          IF OutputPath(jr) \notin localFiles THEN Throw(jr, "verify", NoNumber)
          ELSE IF jr.cap = "remove-background" /\ jr.empty THEN Throw(jr, "verify", 500)
          ELSE [jr EXCEPT !.pc = "upload"]]
    /\ JobUnchanged

\* await cloudinary.uploader.upload(outputPath, ...)
Upload(j) ==
    /\ job[j].pc = "upload"
    /\ \E ok \in Oks :
         /\ Fault(ok)
         /\ LET jr == Called(job[j], "cloudinary") IN
            IF ok /\ OutputPath(jr) \in localFiles
            THEN /\ remote' = remote \cup {OutPublicId(j)}
                 /\ job' = [job EXCEPT ![j] = [Staged(jr, "upload") EXCEPT !.pc = "create"]]
            ELSE /\ UNCHANGED remote
                 /\ job' = [job EXCEPT ![j] = Throw(jr, "upload", NoNumber)]
    /\ UNCHANGED <<projVars, dbImg, localFiles, container, ensureLog, requests>>

\* the cleanup is run in line after res.json(), not from the 'finish' listener
Responded_inline(jr) ==
    [Staged(Staged(jr, "persist"), "respond") EXCEPT
        !.resp = 200,
        !.pc = IF IsDocker(jr) THEN "clOut" ELSE "timer"]

\* after the response: the docker handlers wait for the 'finish' event of res,
\* remove-background for its 5 s timer
Responded(jr) ==
    [Staged(Staged(jr, "persist"), "respond") EXCEPT
        !.resp = 200,
        !.pc = IF IsDocker(jr) THEN "responded" ELSE "timer"]

\* await Image.create({...}); then res.status(200).json(...) and the registration
\* of the cleanup, in the same turn
Create(j) ==
    /\ job[j].pc = "create"
    /\ \E ok \in Oks :
         /\ Fault(ok)
         /\ LET jr == Called(job[j], "db create") IN
            IF ok
            THEN /\ dbImg' = (OutPublicId(j) :>
                       [user |-> JobUser(j),
                        localPath |-> IF IsDocker(jr) THEN NullPath ELSE OutputPath(jr),
                        format |-> OutputFilename(jr).ext]) @@ dbImg
                 /\ job' = [job EXCEPT ![j] = Responded(jr)]
            ELSE /\ UNCHANGED dbImg
                 /\ job' = [job EXCEPT ![j] = Throw(jr, "persist", NoNumber)]
    /\ UNCHANGED <<projVars, localFiles, container, remote, ensureLog, requests>>

\* res 'finish' of a docker handler: the listener starts the cleanup
ResFinish(j) ==
    /\ job[j].pc = "responded"
    /\ job' = [job EXCEPT ![j].finished = TRUE, ![j].pc = "clOut"]
    /\ JobUnchanged

\* res 'finish' of remove-background: nothing listens
RbFinish(j) ==
    /\ job[j].cap = "remove-background"
    /\ job[j].resp = 200
    /\ ~job[j].finished
    /\ job' = [job EXCEPT ![j].finished = TRUE]
    /\ JobUnchanged

\* a cleanup step without its .catch: its failure becomes the error of the job
Cleaned_throws(jr, step, ok) ==
    IF ok THEN [jr EXCEPT !.cleaned = @ \cup {step}]
    ELSE [Throw(jr, "cleanup", NoNumber) EXCEPT !.cleaned = @ \cup {step},
                                                !.cleanFailed = @ \cup {step}]

Cleaned(jr, step, ok) ==
    [jr EXCEPT !.cleaned = @ \cup {step},
               !.cleanFailed = IF ok THEN @ ELSE @ \cup {step}]

\* the output file is left on the disk: the step is counted and deletes nothing
ClOut_skipped(j) ==
    /\ job[j].pc = "clOut"
    /\ job' = [job EXCEPT ![j] = [Cleaned(job[j], "unlinkOut", TRUE) EXCEPT !.pc = "clIn"]]
    /\ JobUnchanged

\* if (outputPath) await fs.unlink(outputPath).catch(log.warn)
ClOut(j) ==
    /\ job[j].pc = "clOut"
    /\ \E ok \in Oks :
         /\ Fault(ok)
         /\ LET jr == job[j]
                done == ok /\ OutputPath(jr) \in localFiles
            IN  /\ localFiles' = IF done THEN localFiles \ {OutputPath(jr)} ELSE localFiles
                /\ job' = [job EXCEPT ![j] = [Cleaned(jr, "unlinkOut", done) EXCEPT !.pc = "clIn"]]
    /\ UNCHANGED <<projVars, dbImg, container, remote, ensureLog, requests>>

\* if (image.localPath) { await fs.unlink(image.localPath).catch(log.warn); ...
ClIn(j) ==
    /\ job[j].pc = "clIn"
    /\ \E ok \in Oks :
         /\ Fault(ok)
         /\ LET jr == job[j]
                done == ok /\ InputPath(jr) \in localFiles
            IN  /\ localFiles' = IF done THEN localFiles \ {InputPath(jr)} ELSE localFiles
                /\ job' = [job EXCEPT ![j] = [Cleaned(jr, "unlinkIn", done) EXCEPT !.pc = "clSave"]]
    /\ UNCHANGED <<projVars, dbImg, container, remote, ensureLog, requests>>

\* ... image.localPath = null; await image.save().catch(log.warn) }
ClSave(j) ==
    /\ job[j].pc = "clSave"
    /\ \E ok \in Oks :
         /\ Fault(ok)
         /\ LET jr == job[j]
                done == ok /\ jr.publicId \in DOMAIN dbImg
            IN  /\ dbImg' = IF done THEN [dbImg EXCEPT ![jr.publicId].localPath = NullPath]
                            ELSE dbImg
                /\ job' = [job EXCEPT ![j] =
                       [Cleaned(jr, "save", done) EXCEPT
                           !.pc = IF IsStyle(jr) THEN "clIn2" ELSE "done"]]
    /\ UNCHANGED <<projVars, localFiles, container, remote, ensureLog, requests>>

\* style-transfer: if (styleImage.localPath) { await fs.unlink(...).catch(...); ...
ClIn2(j) ==
    /\ job[j].pc = "clIn2"
    /\ \E ok \in Oks :
         /\ Fault(ok)
         /\ LET jr == job[j]
                done == ok /\ StylePath(jr) \in localFiles
            IN  /\ localFiles' = IF done THEN localFiles \ {StylePath(jr)} ELSE localFiles
                /\ job' = [job EXCEPT ![j] =
                       [Cleaned(jr, "unlinkStyle", done) EXCEPT !.pc = "clSave2"]]
    /\ UNCHANGED <<projVars, dbImg, container, remote, ensureLog, requests>>

\* ... styleImage.localPath = null; await styleImage.save().catch(log.warn) }
ClSave2(j) ==
    /\ job[j].pc = "clSave2"
    /\ \E ok \in Oks :
         /\ Fault(ok)
         /\ LET jr == job[j]
                done == ok /\ jr.styleId \in DOMAIN dbImg
            IN  /\ dbImg' = IF done THEN [dbImg EXCEPT ![jr.styleId].localPath = NullPath]
                            ELSE dbImg
                /\ job' = [job EXCEPT ![j] = [Cleaned(jr, "saveStyle", done) EXCEPT !.pc = "done"]]
    /\ UNCHANGED <<projVars, localFiles, container, remote, ensureLog, requests>>

\* remove-background: setTimeout(async () => { try { await fs.unlink(image.localPath);
\* ... } catch (err) { log.warn } }, 5000): a failed unlink skips the rest
Timer(j) ==
    /\ job[j].pc = "timer"
    /\ \E ok \in Oks :
         /\ Fault(ok)
         /\ LET jr == job[j]
                done == ok /\ InputPath(jr) \in localFiles
            IN  /\ localFiles' = IF done THEN localFiles \ {InputPath(jr)} ELSE localFiles
                /\ job' = [job EXCEPT ![j] =
                       [Cleaned(jr, "unlinkIn", done) EXCEPT
                           !.pc = IF done THEN "clSave" ELSE "done"]]
    /\ UNCHANGED <<projVars, dbImg, container, remote, ensureLog, requests>>

\* ---- the operator of the host: docker stop <name>, docker rm -f <name>
ExternalEntry ==
    [job |-> 0, ok |-> FALSE, identity |-> 0, created |-> FALSE,
     infra |-> TRUE, began |-> 0]

ExternalStop(cap) ==
    /\ faults < MaxFaults
    /\ container[cap].state = "running"
    /\ container' = [container EXCEPT ![cap].state = "stopped"]
    /\ ensureLog' = [ensureLog EXCEPT ![cap] = Append(@, ExternalEntry)]
    /\ faults' = faults + 1
    /\ UNCHANGED <<projVars, job, dbImg, localFiles, remote, requests>>

ExternalRemove(cap) ==
    /\ faults < MaxFaults
    /\ container[cap].state # "absent"
    /\ container' = [container EXCEPT ![cap].state = "absent", ![cap].files = {}]
    /\ ensureLog' = [ensureLog EXCEPT ![cap] = Append(@, ExternalEntry)]
    /\ faults' = faults + 1
    /\ UNCHANGED <<projVars, job, dbImg, localFiles, remote, requests>>

\* ---- the specification of the jobs

JobInit ==
    /\ job = [j \in Jobs |-> IdleJob]
    /\ dbImg = [i \in UploadedImages |->
                  [user |-> ImageUser(i), localPath |-> UploadPath(i), format |-> "jpg"]]
    /\ localFiles = {UploadPath(i) : i \in UploadedImages}
    /\ container = [c \in DockerCaps |-> [state |-> "absent", id |-> 0, files |-> {}]]
    /\ remote = UploadedImages \cup (ReqPublicIds \ {NoValue})
    /\ ensureLog = [c \in DockerCaps |-> <<>>]
    /\ faults = 0
    /\ requests = 0

\* the request bodies the model sends
RequestIds == DOMAIN dbImg \cup {NoValue, "missing"}
BrightnessInputs == {9, 10, DefaultBrightness, 300, 301}
FidelityInputs == {DefaultFidelity, 101}
EnhanceModes == {NoValue, "sharpen", "denoise"}
RbModes == {NoValue, "portrait"}

JobStep(j) ==
    \/ FindOne(j) \/ FindOne2(j) \/ Access(j) \/ Access2(j)
    \/ EnsureStart(j) \/ EnsureRun(j) \/ CpIn(j) \/ CpIn2(j)
    \/ Exec(j) \/ RbExec(j) \/ CpOut(j) \/ Rm(j) \/ AccessOut(j)
    \/ Upload(j) \/ Create(j) \/ ResFinish(j) \/ RbFinish(j)
    \/ ClOut(j) \/ ClIn(j) \/ ClSave(j) \/ ClIn2(j) \/ ClSave2(j) \/ Timer(j)

\* the server with the request slots S
JobNext(S) ==
    \/ \E j \in S, i \in RequestIds, b \in BrightnessInputs : relightStart(j, i, b)
    \/ \E j \in S, i \in RequestIds, f \in FidelityInputs : faceRestoreStart(j, i, f)
    \/ \E j \in S, i \in RequestIds, m \in EnhanceModes : enhanceStart(j, i, m)
    \/ \E j \in S, i \in RequestIds, k \in RequestIds : styleTransferStart(j, i, k)
    \/ \E j \in S, i \in RequestIds, m \in RbModes : removeBackgroundStart(j, i, m)
    \/ \E j \in S : JobStep(j)
    \/ \E c \in DockerCaps : ExternalStop(c) \/ ExternalRemove(c)

Init == ProjInit /\ JobInit

\* the jobs served one request after the other, with no project request in flight
JobsInit == Init /\ userSettings = [u \in Users |-> 0]

Spec == JobsInit /\ [][JobNext({"j1"})]_vars

\* the project handlers, with no job in flight
SpecProj == Init /\ [][ProjNext]_vars

\* ---- claims on the jobs

Range(s) == {s[i] : i \in DOMAIN s}
IsPrefix(s, t) == Len(s) <= Len(t) /\ \A i \in 1..Len(s) : s[i] = t[i]
\* the stages that come before a stage
Upto(stage) ==
    LET k == CHOOSE i \in DOMAIN StageOrder : StageOrder[i] = stage
    IN  SubSeq(StageOrder, 1, k - 1)

\* a step that deletes a file of the image directory, or nulls a stored localPath
DeletesLocal == \E f \in localFiles : f \notin localFiles'
NullsLocalPath ==
    \E i \in DOMAIN dbImg : dbImg[i].localPath # NullPath /\ dbImg'[i].localPath = NullPath

\* C3: in a successful relight, face-restore, enhance or style-transfer job, every
\* cleanup step (deleting the output file, deleting an input file, nulling
\* localPath) is taken after the 'finish' event of the response
C3_ResponseBeforeCleanup ==
    [][\A j \in Jobs :
          (IsDocker(job[j]) /\ job'[j] # job[j] /\ (DeletesLocal \/ NullsLocalPath))
              => (job[j].finished /\ job[j].resp = 200)]_vars

C3_Witness ==
    \E j \in Jobs :
        LET jr == job[j] IN
        /\ IsDocker(jr) /\ jr.finished /\ jr.resp = 200
        /\ {"unlinkOut", "unlinkIn", "save"} \subseteq jr.cleaned /\ jr.cleanFailed = {}
        /\ OutputPath(jr) \notin localFiles /\ InputPath(jr) \notin localFiles
        /\ dbImg[jr.publicId].localPath = NullPath

\* C4 as stated: a docker job whose pull has failed is answered with an error and
\* its cleanup has deleted the local input file
C4_CleanupAfterPullFailure ==
    \A j \in Jobs :
        LET jr == job[j] IN
        (IsDocker(jr) /\ jr.pc = "failed" /\ jr.failedAt = "pull")
            => (jr.resp >= 400 /\ "unlinkIn" \in jr.cleaned)

\* C4: a docker job whose pull fails is answered with an error and ends there: no
\* cleanup step runs, the local input file and the stored localPath stay as they were
C4_NoCleanupAfterPullFailure ==
    \A j \in Jobs :
        LET jr == job[j] IN
        (IsDocker(jr) /\ jr.failedAt = "pull") =>
            /\ jr.pc = "failed" /\ jr.resp >= 400 /\ ~jr.finished
            /\ jr.cleaned = {}
            /\ InputPath(jr) \in localFiles
            /\ dbImg[jr.publicId].localPath = InputPath(jr)

\* the model run left no output in the container and docker cp found nothing
C4_Witness ==
    \E j \in Jobs :
        LET jr == job[j] IN
        /\ IsDocker(jr) /\ jr.failedAt = "pull" /\ jr.stages = Upto("pull")
        /\ container[jr.cap].state = "running"
        /\ ContainerOutput(jr) \notin container[jr.cap].files

\* C5: in the cleanup of every handler a failed step does not keep the later steps
\* from running: once the cleanup has ended, the docker handlers have run all their
\* steps, and every handler that tried to delete the input has saved localPath = null
C5_CleanupStepsIsolated ==
    \A j \in Jobs :
        LET jr == job[j] IN
        (jr.pc = "done" /\ jr.resp = 200) =>
            /\ IsDocker(jr) => {"unlinkOut", "unlinkIn", "save"} \subseteq jr.cleaned
            /\ IsStyle(jr) => {"unlinkStyle", "saveStyle"} \subseteq jr.cleaned
            /\ "unlinkIn" \in jr.cleaned => "save" \in jr.cleaned

WorkerCalls == {"docker start", "docker run", "docker cp in", "docker exec",
                "docker cp out", "docker rm files", "rembg"}
LookupPcs == {"findOne", "findOne2", "access", "access2"}

\* C6: a job on an image whose local copy an earlier cleanup has deleted is
\* answered 404 and calls no worker, whether or not localPath was nulled (the
\* requests that fail validation or whose database lookup fails are left aside)
C6_GoneIsNotFound ==
    \A j \in Jobs :
        LET jr == job[j] IN
        (/\ jr.goneAtStart
         /\ jr.pc \notin LookupPcs
         /\ jr.failedAt # "validate"
         /\ ~(jr.failedAt = "findOne" /\ jr.resp = 500))
        => (jr.pc = "failed" /\ jr.resp = 404 /\ jr.calls \cap WorkerCalls = {})

RejectedUnseen(jr) ==
    /\ jr.pc = "failed" /\ jr.failedAt = "validate" /\ jr.resp = 400
    /\ jr.calls = {}

\* C7 as stated: a relight request with brightness outside (0.1, 3.0] is rejected
\* with 400 before any external call
C7_OpenLowerBound ==
    \A j \in Jobs :
        (job[j].cap = "relight" /\ (job[j].num <= 10 \/ job[j].num > 300))
            => RejectedUnseen(job[j])

\* C7: a relight request with brightness outside [0.1, 3.0] is rejected with 400
\* before any external call, and one with brightness in [0.1, 3.0] (0.1 included)
\* and a publicId passes the validation
C7_ClosedInterval ==
    \A j \in Jobs :
        LET jr == job[j] IN
        jr.cap = "relight" =>
            /\ (jr.num < 10 \/ jr.num > 300) => RejectedUnseen(jr)
            /\ (jr.num \in 10..300 /\ jr.publicId # NoValue) => jr.failedAt # "validate"

C7_Witness ==
    \E j \in Jobs :
        /\ job[j].cap = "relight" /\ job[j].num = 301
        /\ job[j].publicId \in UploadedImages
        /\ RejectedUnseen(job[j])

\* the stage a call belongs to is entered after the stage before it is complete
CallAfter ==
    [c \in {"docker cp in", "docker exec", "docker cp out", "cloudinary", "db create"} |->
        CASE c = "docker cp in" -> "ensure"
          [] c = "docker exec" -> "push"
          [] c = "docker cp out" -> "invoke"
          [] c = "cloudinary" -> "pull"
          [] c = "db create" -> "upload"]

\* C8: in a docker job the stages complete in the order ensure, push, invoke, pull,
\* upload, persist, respond, a call of a stage is made only after the stage before
\* it is complete, and a failure ends the job with an error: no later stage, no
\* success response
C8_StagesInOrder ==
    \A j \in Jobs :
        LET jr == job[j] IN
        IsDocker(jr) =>
            /\ IsPrefix(jr.stages, StageOrder)
            /\ \A c \in DOMAIN CallAfter :
                   c \in jr.calls => CallAfter[c] \in Range(jr.stages)
            /\ jr.failedAt # "" =>
                   /\ jr.pc = "failed" /\ jr.resp >= 400
                   /\ "respond" \notin Range(jr.stages)
                   /\ jr.failedAt \in Range(StageOrder) => jr.stages = Upto(jr.failedAt)
                   /\ jr.failedAt = "verify" => jr.stages = Upto("upload")
                   /\ jr.failedAt \in {"validate", "findOne", "localPath", "access"}
                          => jr.stages = <<>>
            /\ jr.resp = 200 <=> "respond" \in Range(jr.stages)
            /\ jr.resp = 200 => (jr.stages = StageOrder /\ jr.failedAt = "")

C8_Witness ==
    \E j \in Jobs :
        LET jr == job[j] IN
        /\ IsDocker(jr) /\ jr.pc = "failed" /\ jr.failedAt = "upload"
        /\ jr.stages = Upto("upload") /\ jr.resp = 500
        /\ "db create" \notin jr.calls

\* C9: the first ensureContainerRunning of a capability creates its container, and
\* a call that follows a completed successful call, with no failure of docker in
\* between, resumes the same container and creates none
C9_EnsureIdempotent ==
    \A cap \in DockerCaps :
        LET log == ensureLog[cap] IN
        /\ (log # <<>> /\ ~log[1].infra) =>
               (log[1].ok /\ log[1].created /\ log[1].identity = 1)
        /\ \A i \in 1..(Len(log) - 1) :
               (log[i].ok /\ ~log[i + 1].infra /\ log[i + 1].began >= i) =>
                   /\ log[i + 1].ok /\ ~log[i + 1].created
                   /\ log[i + 1].identity = log[i].identity
        /\ container[cap].id = Cardinality({i \in DOMAIN log : log[i].created})

C9_Witness ==
    \E cap \in DockerCaps :
        LET log == ensureLog[cap] IN
        /\ Len(log) = 2 /\ faults = 0
        /\ log[1].ok /\ log[1].created
        /\ log[2].ok /\ ~log[2].created /\ log[2].identity = log[1].identity
        /\ log[2].job # log[1].job

\* the publicIds under which a successful enhance job stores its result
EnhanceResults ==
    {m \o "_" \o i \o "_" \o ToString(t) :
        m \in {"denoise", "deblur"}, i \in UploadedImages, t \in 1..MaxRequests}

\* C11: a relight job on the publicId that a successful enhance job returned is
\* accepted and processed: it is not rejected for a missing local file
C11_OutputIsNextInput ==
    \A j \in Jobs :
        LET jr == job[j] IN
        (/\ jr.cap = "relight"
         /\ jr.publicId \in EnhanceResults \cap DOMAIN dbImg
         /\ jr.image.found)
        => ~(jr.pc = "failed" /\ jr.failedAt = "localPath")

\* ---- the projects at the smallest and at the largest cap

CapInit == NoProjects /\ JobInit /\ userSettings \in [Users -> {1, MaxVersionsLimit}]

CapNext ==
    \/ \E u \in Users, i \in UploadedImages : createProject(u, i, "t1")
    \/ \E u \in Users : addVersionToProject(u, "p1", "ver1", "enhance")
    \/ \E u \in Users : getProjectDetails(u, "p1")

SpecCap == CapInit /\ [][CapNext]_vars

\* C12: with maxVersions = 1 the versions are always the single most recently
\* appended record; with maxVersions = 15 the first 15 appends evict nothing and the
\* 16th evicts exactly the first-appended record, leaving records 2..16 in order
C12_CapOneAndFifteen ==
    \A pid \in ProjectIds :
        projects[pid].exists =>
            LET p == projects[pid]
                h == appended[pid]
            IN  /\ (p.maxVersions = 1 /\ h # <<>>) => p.versions = <<h[Len(h)]>>
                /\ (p.maxVersions = 15 /\ Len(h) <= 15) => p.versions = h
                /\ (p.maxVersions = 15 /\ Len(h) = 16) => p.versions = SubSeq(h, 2, 16)

C12_Witness ==
    /\ projects["p1"].exists /\ projects["p1"].maxVersions = 15
    /\ Len(appended["p1"]) = 16
    /\ Len(projects["p1"].versions) = 15
    /\ projects["p1"].versions[1] = appended["p1"][2]
    /\ projects["p1"].versions[15] = appended["p1"][16]
    /\ presp.op = "add-version" /\ presp.status = 200

\* C13: once a project is created no request changes its originalImage: not an
\* add-version (evicting or not), a title update, a list or a detail request
C13_OriginalWriteOnce ==
    [][\A pid \in ProjectIds :
          (projects[pid].exists /\ projects'[pid].exists)
              => projects'[pid].originalImage = projects[pid].originalImage]_vars

\* after an eviction and a title update the original is the record of the creation
C13_Witness ==
    /\ projects["p1"].exists
    /\ Len(appended["p1"]) > projects["p1"].maxVersions
    /\ presp.op = "title" /\ presp.status = 200
    /\ projects["p1"].originalImage.operation = "original"
    /\ projects["p1"].originalImage.publicId \in UploadedImages
    /\ projects["p1"].originalImage.oid < appended["p1"][1].oid

\* C14: eviction and deleteProject are metadata-only: the remote artifact of every
\* original and of every version ever appended, evicted or deleted with its project
\* or not, is still in the remote store
C14_MetadataOnly ==
    /\ UploadedImages \subseteq remote
    /\ \A pid \in ProjectIds :
           /\ \A i \in DOMAIN appended[pid] : appended[pid][i].publicId \in remote
           /\ projects[pid].exists => projects[pid].originalImage.publicId \in remote

\* a project capped at one version got two versions (one eviction) and was deleted
C14_Witness ==
    /\ \A u \in Users : userSettings[u] = 1
    /\ projects["p1"] = DeletedProject
    /\ Len(appended["p1"]) >= 2
    /\ presp.op = "delete" /\ presp.status = 200
    /\ \A i \in DOMAIN appended["p1"] : appended["p1"][i].publicId \in remote

\* ---- the jobs under the scheduling of the event loop: a settled await, an
\* emitted 'finish' and an expired timer are eventually run
SpecLive == JobsInit /\ [][JobNext({"j1"})]_vars /\ WF_vars(JobStep("j1"))

\* the response of the job is sent: 'finish' for a docker handler, whose cleanup
\* it starts; the 200 of remove-background, whose cleanup the timer starts
Sent(j) ==
    /\ job[j].resp = 200
    /\ IsDocker(job[j]) => job[j].finished

\* C15: once a job has sent its success response its cleanup runs to the end (the
\* job reaches done) whichever cleanup steps fail, and no cleanup failure reaches
\* the caller or makes the job failed
C15_CleanupCompletes ==
    /\ \A j \in Jobs : Sent(j) ~> (job[j].pc = "done")
    /\ [][\A j \in Jobs :
             (Sent(j) /\ job'[j].ts = job[j].ts)
                 => (job'[j].resp = 200 /\ job'[j].pc # "failed"
                        /\ job'[j].failedAt = "")]_vars

\* a cleanup that ended although its first step failed
C15_Witness ==
    \E j \in Jobs :
        /\ job[j].pc = "done" /\ job[j].resp = 200
        /\ "unlinkOut" \in job[j].cleanFailed
        /\ {"unlinkIn", "save"} \subseteq job[j].cleaned

\* the capabilities whose output path in the worker carries no unique id
FixedOutputCaps == {"style-transfer", "face-restore"}

\* C16: a docker job passes its pull, and so reports success, only if its own
\* invocation produced the expected output file, whatever earlier jobs left in the
\* worker. Stated for the capabilities that do not rely on the unique id of the
\* job, so that no violation rests on two jobs drawing the same unique id.
C16_SuccessOnlyWithOwnOutput ==
    \A j \in Jobs :
        (/\ job[j].cap \in FixedOutputCaps
         /\ ("pull" \in Range(job[j].stages) \/ job[j].resp = 200))
        => job[j].produced

\* ---- two requests in flight at once: the enhance handler on both request slots
PairStep(j) ==
    \/ FindOne(j) \/ Access(j) \/ EnsureStart(j) \/ EnsureRun(j) \/ CpIn(j)
    \/ Exec(j) \/ CpOut(j) \/ Rm(j) \/ AccessOut(j) \/ Upload(j) \/ Create(j)
    \/ ResFinish(j) \/ ClOut(j) \/ ClIn(j) \/ ClSave(j)

PairNext ==
    \/ \E j \in Jobs, i \in UploadedImages : enhanceStart(j, i, "denoise")
    \/ \E j \in Jobs : PairStep(j)

SpecPair == JobsInit /\ [][PairNext]_vars

\* a job whose input is staged in the worker and whose in-worker rm has not run
InWorker(jr) == IsDocker(jr) /\ jr.pc \in {"exec", "cpOut", "rm"}

\* C17: two jobs that are in the same worker at the same time have staged their
\* inputs under distinct names
C17_StagedNamesDistinct ==
    \A j, k \in Jobs :
        (j # k /\ InWorker(job[j]) /\ InWorker(job[k]) /\ job[j].cap = job[k].cap)
            => StagedInput(job[j]) # StagedInput(job[k])

\* the paths a job reads or writes in the worker
WorkerPaths(jr) == {StagedInput(jr), ContainerOutput(jr)}

\* C18: of two enhance jobs in the worker at once on distinct images, also when
\* their unique ids are equal, neither staged input is the other's, neither output
\* path is a path the other job uses, and no step of one job (its push, its run,
\* its pull, its in-worker rm) takes away a worker file of the other
C18_DistinctInputsDoNotCollide ==
    [][\A j, k \in Jobs :
          LET a == job[j]
              b == job[k]
          IN  (/\ j # k /\ a.cap = "enhance" /\ b.cap = "enhance"
               /\ InWorker(a) /\ b.uid # ""
               /\ a.publicId # b.publicId)
              => /\ StagedInput(a) # StagedInput(b)
                 /\ ContainerOutput(a) \notin WorkerPaths(b)
                 /\ OutputPath(a) \notin {OutputPath(b), InputPath(b)}
                 /\ (job'[j] = a /\ job'[k] # b)
                        => (WorkerPaths(a) \cap container[a.cap].files)
                               \subseteq container'[a.cap].files]_vars

\* both jobs are staged, with distinct images and the same unique id
C18_Witness ==
    LET a == job["j1"]
        b == job["j2"]
    IN  /\ a.cap = "enhance" /\ b.cap = "enhance"
        /\ a.pc = "exec" /\ b.pc = "exec"
        /\ a.publicId # b.publicId /\ a.uid = b.uid
        /\ {StagedInput(a), StagedInput(b)} \subseteq container["enhance"].files

\* the job has reached its invocation: docker exec of the model, or rembg
Invoked(jr) == "docker exec" \in jr.calls \/ "rembg" \in jr.calls

\* C19 as stated: the duration is recorded for every job whose invocation has
\* returned, whether it succeeded or failed
C19_DurationAlways ==
    \A j \in Jobs : Invoked(job[j]) => job[j].timed

\* C19: the duration is recorded for every job whose invocation succeeds, and for
\* no job whose invocation fails
C19_DurationOnSuccess ==
    \A j \in Jobs :
        LET jr == job[j] IN
        /\ jr.timed <=> "invoke" \in Range(jr.stages)
        /\ (Invoked(jr) /\ jr.failedAt = "invoke") => ~jr.timed
        /\ (Invoked(jr) /\ jr.failedAt # "invoke") => jr.timed

\* a failed invocation, and no duration
C19_Witness ==
    \E j \in Jobs :
        /\ Invoked(job[j]) /\ job[j].failedAt = "invoke" /\ job[j].pc = "failed"
        /\ ~job[j].timed

C21_RbCleanupAfterFlush ==
    [][\A j \in Jobs :
          (/\ job[j].cap = "remove-background"
           /\ job'[j] # job[j]
           /\ (DeletesLocal \/ NullsLocalPath))
              => (job[j].resp = 200 /\ job[j].finished)]_vars

\* a successful job whose cleanup has ended with no failed step
CleanedUp(jr) == jr.pc = "done" /\ jr.resp = 200 /\ jr.cleanFailed = {}

\* C22 as stated: for every capability, remove-background included, the cleanup of
\* a successful job deletes the output file and the input file and nulls localPath
C22_AllThreeEveryCapability ==
    \A j \in Jobs :
        LET jr == job[j] IN
        CleanedUp(jr) =>
            /\ OutputPath(jr) \notin localFiles
            /\ InputPath(jr) \notin localFiles
            /\ dbImg[jr.publicId].localPath = NullPath

\* C22: the cleanup of a successful relight, face-restore, enhance or
\* style-transfer job deletes the output file and the input file(s) and nulls the
\* localPath of the input image(s); the cleanup of a successful remove-background
\* job deletes the input file and nulls its localPath, and keeps the output file,
\* which is the localPath of the image record the job created
C22_CleanupPerCapability ==
    \A j \in Jobs :
        LET jr == job[j] IN
        CleanedUp(jr) =>
            /\ InputPath(jr) \notin localFiles
            /\ dbImg[jr.publicId].localPath = NullPath
            /\ IsDocker(jr) =>
                   /\ {"unlinkOut", "unlinkIn", "save"} \subseteq jr.cleaned
                   /\ OutputPath(jr) \notin localFiles
            /\ IsStyle(jr) =>
                   /\ StylePath(jr) \notin localFiles
                   /\ dbImg[jr.styleId].localPath = NullPath
            /\ jr.cap = "remove-background" =>
                   /\ jr.cleaned = {"unlinkIn", "save"}
                   /\ OutputPath(jr) \in localFiles
                   /\ dbImg[OutPublicId(j)].localPath = OutputPath(jr)

\* a remove-background job whose cleanup has ended: input gone, output kept
C22_Witness ==
    \E j \in Jobs :
        LET jr == job[j] IN
        /\ jr.cap = "remove-background" /\ CleanedUp(jr)
        /\ InputPath(jr) \notin localFiles /\ OutputPath(jr) \in localFiles
        /\ dbImg[jr.publicId].localPath = NullPath

StylePairStep(j) ==
    \/ FindOne(j) \/ FindOne2(j) \/ Access(j) \/ Access2(j)
    \/ EnsureStart(j) \/ EnsureRun(j) \/ CpIn(j) \/ CpIn2(j)
    \/ Exec(j) \/ CpOut(j) \/ Rm(j) \/ AccessOut(j) \/ Upload(j) \/ Create(j)
    \/ ResFinish(j) \/ ClOut(j) \/ ClIn(j) \/ ClSave(j) \/ ClIn2(j) \/ ClSave2(j)

StylePairNext ==
    \/ \E j \in Jobs, i \in UploadedImages :
          \E k \in UploadedImages \ {i} : styleTransferStart(j, i, k)
    \/ \E j \in Jobs : StylePairStep(j)

SpecStylePair == JobsInit /\ [][StylePairNext]_vars

\* the paths a style-transfer job reads or writes in the worker
StyleWorkerPaths(jr) == {StagedInput(jr), StagedStyle(jr), ContainerOutput(jr)}

\* C24: of two style-transfer jobs in the worker at once with different content
\* and different style images, no step of one job deletes a worker file of the
\* other, and no run of one job writes over the output the other job's run wrote
\* and has not pulled yet
C24_StyleJobsIsolated ==
    [][\A j, k \in Jobs :
          LET a == job[j]
              b == job[k]
              files == container["style-transfer"].files
          IN  (/\ j # k /\ IsStyle(a) /\ IsStyle(b)
               /\ InWorker(a) /\ b.uid # ""
               /\ a.publicId # b.publicId /\ a.styleId # b.styleId
               /\ job'[j] = a /\ job'[k] # b)
              => /\ (StyleWorkerPaths(a) \cap files)
                        \subseteq container'["style-transfer"].files
                 /\ (a.pc = "cpOut" /\ a.produced /\ job'[k].produced /\ ~b.produced)
                        => ContainerOutput(a) \notin ExecWrites(b, files)]_vars

\* C25: of the calls of ensureContainerRunning that are entered while no call for
\* the capability has completed yet (its container does not exist), at most one
\* creates a container and, with no call failing for an outside reason, every one
\* succeeds
C25_ConcurrentEnsureBothSucceed ==
    \A cap \in DockerCaps :
        LET log == ensureLog[cap] IN
        faults = 0 =>
        /\ Cardinality({i \in DOMAIN log : log[i].created /\ log[i].began = 0}) <= 1
        /\ \A i \in DOMAIN log : (log[i].began = 0 /\ ~log[i].infra) => log[i].ok

\* ---- add-version requests in flight at once: the handler from its
\* Project.findById to the save() of addVersion

\* the __v of the stored project: mongoose increments it with every save that
\* pushes to versions or replaces it
VersionKey(pid) == Len(appended[pid])

\* POST /api/projects/:projectId/add-version up to the resolved findById: the
\* request holds its own copy of the document
addVersionRead(r, u, pid, publicId, operation) ==
    /\ pending[r] = NoDocument
    /\ UNCHANGED jobVars
    /\ IF publicId = NoValue
       THEN /\ presp' = Response("add-version", u, pid, 400, NoValue)
            /\ UNCHANGED <<projects, appended, nextOid, userSettings, pending>>
       ELSE IF ~Found(pid)
       THEN /\ presp' = Response("add-version", u, pid, 404, NoValue)
            /\ UNCHANGED <<projects, appended, nextOid, userSettings, pending>>
       ELSE /\ pending' = [pending EXCEPT ![r] =
                   [loaded |-> TRUE, user |-> u, projectId |-> pid,
                    doc |-> projects[pid], v |-> VersionKey(pid),
                    versionData |-> [oid |-> nextOid, publicId |-> publicId,
                                     operation |-> IF operation = NoValue THEN "custom"
                                                   ELSE operation]]]
            /\ nextOid' = nextOid + 1
            /\ UNCHANGED <<projects, appended, userSettings, presp>>

\* project.addVersion(versionData) on the loaded copy, its save() and the response.
\* save() sends what changed in the copy: a push alone as $push of the new record,
\* a replaced array (the trim) as $set of the whole array, which mongoose guards
\* with the __v the copy was loaded at
addVersionSave(r) ==
    /\ pending[r] # NoDocument
    /\ UNCHANGED jobVars
    /\ LET ld == pending[r]
           pid == ld.projectId
           doc == addVersion(ld.doc, ld.versionData)
           trimmed == Len(ld.doc.versions) + 1 > ld.doc.maxVersions
           rejected == \/ ~ValidVersion(ld.versionData)
                       \/ ~Found(pid)
                       \/ trimmed /\ ld.v # VersionKey(pid)
       IN  /\ pending' = [pending EXCEPT ![r] = NoDocument]
           /\ IF rejected
              THEN /\ presp' = Response("add-version", ld.user, pid,
                                        globalErrorHandler(NoNumber), NoValue)
                   /\ UNCHANGED <<projects, appended, nextOid, userSettings>>
              ELSE /\ Len(appended[pid]) < AppendBound(projects[pid])
                   /\ projects' = [projects EXCEPT ![pid].versions =
                          IF trimmed THEN doc.versions ELSE Append(@, ld.versionData)]
                   /\ appended' = [appended EXCEPT ![pid] = Append(@, ld.versionData)]
                   /\ presp' = Response("add-version", ld.user, pid, 200,
                                        getLatestVersion(doc))
                   /\ UNCHANGED <<nextOid, userSettings>>

AddNext ==
    \/ \E u \in Users, i \in UploadedImages : createProject(u, i, "t1")
    \/ \E r \in AddRequests, u \in Users, i \in ReqPublicIds :
          addVersionRead(r, u, "p1", i, "enhance")
    \/ \E r \in AddRequests : addVersionSave(r)

SpecAdd == Init /\ [][AddNext]_vars

\* C26: with add-version requests processed concurrently, the stored versions never
\* exceed maxVersions and hold every acknowledged record that is among the
\* maxVersions most recently acknowledged ones: none is lost
C26_ConcurrentAppendsKept ==
    \A pid \in ProjectIds :
        projects[pid].exists =>
            LET p == projects[pid]
                h == appended[pid]
            IN  /\ Len(p.versions) <= p.maxVersions
                /\ \A i \in DOMAIN h :
                       i > Len(h) - p.maxVersions => h[i] \in Range(p.versions)

\* C27: no step of a relight, face-restore, enhance or style-transfer job deletes
\* the local file, or nulls the localPath, of an image that belongs to a user other
\* than the one who made the request
C27_NoCrossUserCleanup ==
    [][\A j \in Jobs :
          (IsDocker(job[j]) /\ job'[j] # job[j]) =>
              \A i \in DOMAIN dbImg :
                  dbImg[i].user # JobUser(j) =>
                      /\ dbImg'[i].localPath = dbImg[i].localPath
                      /\ dbImg[i].localPath \in localFiles
                             => dbImg[i].localPath \in localFiles']_vars

\* C28: of two jobs of one capability in flight on the same image, the in-worker rm
\* of one never removes the staged input of the other while that job's own
\* invocation has not run yet
C28_StagedInputKept ==
    [][\A j, k \in Jobs :
          LET a == job[j]
              b == job[k]
          IN  (/\ j # k /\ IsDocker(a) /\ a.cap = b.cap
               /\ a.publicId = b.publicId
               /\ a.pc = "exec"
               /\ faults = 0
               /\ job'[j] = a /\ job'[k] # b
               /\ StagedInput(a) \in container[a.cap].files)
              => StagedInput(a) \in container'[a.cap].files]_vars

\* ---- two face-restore requests in flight at once, with the same fidelity
FacePairNext ==
    \/ \E j \in Jobs, i \in UploadedImages : faceRestoreStart(j, i, DefaultFidelity)
    \/ \E j \in Jobs : PairStep(j)

SpecFacePair == JobsInit /\ [][FacePairNext]_vars

\* C29: the in-worker cleanup of a face-restore job never deletes the staged input,
\* or the output not pulled yet, of another face-restore job in the worker on a
\* different image, also when both jobs use the same fidelity
C29_FaceCleanupOwnFilesOnly ==
    [][\A j, k \in Jobs :
          LET a == job[j]
              b == job[k]
              files == container["face-restore"].files
          IN  (/\ j # k /\ a.cap = "face-restore" /\ b.cap = "face-restore"
               /\ a.publicId # b.publicId
               /\ a.pc \in {"exec", "cpOut"}
               /\ b.pc = "rm"
               /\ faults = 0
               /\ job'[j] = a /\ job'[k] # b)
              => /\ StagedInput(a) \in files
                        => StagedInput(a) \in container'["face-restore"].files
                 /\ (a.pc = "cpOut" /\ a.produced /\ ContainerOutput(a) \in files)
                        => ContainerOutput(a) \in container'["face-restore"].files]_vars

\* the stages of a docker job that come before its response
FailureStages == {"ensure", "push", "invoke", "pull", "verify", "upload", "persist"}

\* C30: a docker job that fails at a stage before the response ends with an error
\* and runs no cleanup step: the local file(s) of its input image(s) and the stored
\* localPath are as the job found them
C30_FailureKeepsInput ==
    \A j \in Jobs :
        LET jr == job[j] IN
        (IsDocker(jr) /\ jr.failedAt \in FailureStages) =>
            /\ jr.pc = "failed" /\ jr.resp >= 400 /\ ~jr.finished
            /\ jr.cleaned = {}
            /\ InputPath(jr) \in localFiles
            /\ dbImg[jr.publicId].localPath = InputPath(jr)
            /\ IsStyle(jr) =>
                   /\ StylePath(jr) \in localFiles
                   /\ dbImg[jr.styleId].localPath = StylePath(jr)

\* the result is uploaded, Image.create fails, and the input is still in place
C30_Witness ==
    \E j \in Jobs :
        LET jr == job[j] IN
        /\ IsDocker(jr) /\ jr.pc = "failed" /\ jr.failedAt = "persist"
        /\ {"cloudinary", "db create"} \subseteq jr.calls
        /\ InputPath(jr) \in localFiles
        /\ dbImg[jr.publicId].localPath = InputPath(jr)
====
